---------------------------- MODULE Spec2Model ----------------------------
(***************************************************************************)
(* RankedSequenceGraph of midi-pig-pen: a bidirectional graph of the notes *)
(* of the ingested MIDI sequences, its ranked queries, its sequence index  *)
(* and its policy driven traversal.                                        *)
(*                                                                         *)
(* JavaScript objects keyed by note number (_map, pathsIn, pathsOut) are   *)
(* functions whose DOMAIN is the set of own keys; lodash walks such an     *)
(* object in Object.keys order, which for integer keys is ascending.       *)
(* Arrays are sequences; array indices stored in the state (eventIndex,    *)
(* index) keep their 0-based JavaScript values.  An optional value         *)
(* (prev?: Node, RankedNoteElement | undefined) is a sequence of length    *)
(* zero (undefined) or one.  A reference to a Node is the node's key.      *)
(***************************************************************************)
EXTENDS Integers, Sequences, FiniteSets, TLC

\* ------------------------------------------------------------------ bounds
MaxEvents == 5

MaxCalls == 2

MaxTraverseEvents == 3

MaxTraverseCalls == 1

MaxSteps == 3
\* The largest maxCount of a traversal under the top-ranked policy.
MaxTopRankedCount == 5

\* ------------------------------------------------------------------ inputs
Notes == {60, 62, 64}

NoteOn == "noteOn"

NoteOff == "noteOff"

EventKinds ==
    {[subtype |-> NoteOn, noteNumber |-> n] : n \in Notes}
        \cup {[subtype |-> NoteOff, noteNumber |-> 60]}

\* The notes of the graphs that are traversed; the third note never has a
\* node there.
TraverseNotes == {60, 62}

NoteOnKinds ==
    {k \in EventKinds : k.subtype = NoteOn /\ k.noteNumber \in TraverseNotes}

\* A sequence whose i-th event (0-based) is of kind kinds[i+1] and sounds at
\* offset i; its duration is the offset just after its last event.
MakeSequence(kinds) ==
    [duration |-> Len(kinds),
     events   |-> [i \in 1..Len(kinds) |->
                     [subtype    |-> kinds[i].subtype,
                      noteNumber |-> kinds[i].noteNumber,
                      offset     |-> i - 1]]]

\* The sequences of at most maxLen events of the given kinds.
SequencesOver(kindSet, maxLen) ==
    UNION {{MakeSequence(k) : k \in [1..n -> kindSet]} : n \in 0..maxLen}

DisallowReuse == "DisallowReuse"

ResetAfterExhaust == "ResetAfterExhaust"

AttributeSets == SUBSET {DisallowReuse, ResetAfterExhaust}

\* maxCount is a number: values that the index of _push reaches, and one that
\* no index ever equals.
MaxCounts == (0..(MaxSteps - 1)) \cup {0 - 1}

\* ------------------------------------------------------------------- state
VARIABLES
    map,             \* RankedSequenceGraph._map
    insertSequence,  \* RankedSequenceGraph._insertSequence
    ingested,        \* history: the arguments of the addSequence calls so far
    pc,              \* position of the traverse call: "idle", "push", "done"
    attributes,      \* traverse parameters
    maxCount,
    startNote,
    exclude,         \* traverse's local exclude array
    noteElement,     \* argument of the pending _push call (optional)
    index,           \* argument of the pending _push call
    result,          \* the notes of the _push calls that returned non-empty
    nextLog          \* history: the invocations of next in this traverse

graphVars == <<map, insertSequence>>

travVars == <<pc, attributes, maxCount, startNote, exclude, noteElement,
              index, result, nextLog>>

vars == <<map, insertSequence, ingested, pc, attributes, maxCount, startNote,
          exclude, noteElement, index, result, nextLog>>

\* ----------------------------------------------------------------- helpers
RECURSIVE SumSeq(_)
SumSeq(s) == IF s = <<>> THEN 0 ELSE s[1] + SumSeq(Tail(s))

Range(s) == {s[i] : i \in 1..Len(s)}

\* Array.prototype.indexOf: 0-based index of the first match, -1 if none.
IndexOf(arr, x) ==
    LET at == {i \in 1..Len(arr) : arr[i] = x}
    IN  IF at = {} THEN 0 - 1
        ELSE (CHOOSE i \in at : \A j \in at : i <= j) - 1

\* Array.prototype.slice(begin)
Slice(arr, begin) == SubSeq(arr, begin + 1, Len(arr))

\* Object.keys of an object with integer keys: ascending numeric order.
Keys(obj) ==
    LET own == DOMAIN obj
    IN  [i \in 1..Cardinality(own) |->
           CHOOSE k \in own : Cardinality({j \in own : j < k}) = i - 1]


\* Mutation: the ranking key with its sign lost.
IterateeAscending(element) == element.count

\* lodash sortBy with the iteratee element => 0 - element.count: ascending by
\* that key, elements of equal key keeping their relative order (stable).
Iteratee(element) == 0 - element.count

\* Mutation: an element goes before the elements of equal key (unstable).
InsertSortedUnstable(sorted, e) ==
    LET n == Cardinality({i \in 1..Len(sorted) :
                            Iteratee(sorted[i]) < Iteratee(e)})
    IN  SubSeq(sorted, 1, n) \o <<e>> \o SubSeq(sorted, n + 1, Len(sorted))

InsertSorted(sorted, e) ==
    LET n == Cardinality({i \in 1..Len(sorted) :
                            Iteratee(sorted[i]) <= Iteratee(e)})
    IN  SubSeq(sorted, 1, n) \o <<e>> \o SubSeq(sorted, n + 1, Len(sorted))

RECURSIVE SortBy(_)
SortBy(arr) ==
    IF arr = <<>> THEN <<>>
    ELSE InsertSorted(SortBy(SubSeq(arr, 1, Len(arr) - 1)), arr[Len(arr)])

\* ------------------------------------------------------------- addSequence
NewNode(note) ==
    [count |-> 0, note |-> note, pathsIn |-> <<>>, pathsOut |-> <<>>,
     sequences |-> <<>>]

NewReference(note) == [count |-> 0, node |-> note]

\* _ensureMappedValue: the object after the call; the value returned by the
\* call is the entry at key.
EnsureMappedValue(obj, key, made) ==
    IF key \in DOMAIN obj THEN obj ELSE obj @@ (key :> made)

\* _ensureMappedValue(obj, key, () => ({count: 0, node})).count++
CountReference(obj, key) ==
    [EnsureMappedValue(obj, key, NewReference(key)) EXCEPT ![key].count = @ + 1]

\* Mutation: the filter keeps every event.
FilterNothing(sequence) ==
    [duration |-> sequence.duration, events |-> sequence.events]

\* events.filter(event => event.subtype === MidiIoEventSubtype.noteOn) inside
\* Object.assign({}, sequence, {events: ...})
FilterNoteOn(sequence) ==
    [duration |-> sequence.duration,
     events   |-> SelectSeq(sequence.events, LAMBDA e : e.subtype = NoteOn)]

\* Mutation: the edge is counted in node.pathsIn only.
AddEventForgetsPathsOut(g, sequence, i, prev) ==
    LET note == sequence.events[i + 1].noteNumber
        m1 == EnsureMappedValue(g.map, note, NewNode(note))
        m2 == [m1 EXCEPT ![note].count = @ + 1,
                         ![note].sequences =
                             Append(@, [eventIndex |-> i, sequence |-> sequence])]
        m3 == IF prev = <<>> THEN m2
              ELSE [m2 EXCEPT ![note].pathsIn = CountReference(@, prev[1])]
    IN  [map |-> m3, insertSequence |-> Append(g.insertSequence, note)]

\* Mutation: the occurrence is recorded with a 1-based event index.
AddEventIndexFromOne(g, sequence, i, prev) ==
    LET note == sequence.events[i + 1].noteNumber
        m1 == EnsureMappedValue(g.map, note, NewNode(note))
        m2 == [m1 EXCEPT ![note].count = @ + 1,
                         ![note].sequences =
                             Append(@, [eventIndex |-> i + 1,
                                        sequence |-> sequence])]
        m3 == IF prev = <<>> THEN m2
              ELSE [m2 EXCEPT ![note].pathsIn = CountReference(@, prev[1])]
        m4 == IF prev = <<>> THEN m3
              ELSE [m3 EXCEPT ![prev[1]].pathsOut = CountReference(@, note)]
    IN  [map |-> m4, insertSequence |-> Append(g.insertSequence, note)]

\* One level of _addEventIndex before its recursive call: g is the graph
\* [map, insertSequence], sequence the filtered sequence, i the 0-based index
\* and prev the optional previous note.
AddEvent(g, sequence, i, prev) ==
    LET note == sequence.events[i + 1].noteNumber
        m1 == EnsureMappedValue(g.map, note, NewNode(note))
        m2 == [m1 EXCEPT ![note].count = @ + 1,
                         ![note].sequences =
                             Append(@, [eventIndex |-> i, sequence |-> sequence])]
        m3 == IF prev = <<>> THEN m2
              ELSE [m2 EXCEPT ![note].pathsIn = CountReference(@, prev[1])]
        m4 == IF prev = <<>> THEN m3
              ELSE [m3 EXCEPT ![prev[1]].pathsOut = CountReference(@, note)]
    IN  [map |-> m4, insertSequence |-> Append(g.insertSequence, note)]

RECURSIVE AddEventIndex(_, _, _, _)
AddEventIndex(g, sequence, i, prev) ==
    IF i < Len(sequence.events)
    THEN AddEventIndex(AddEvent(g, sequence, i, prev), sequence, i + 1,
                       <<sequence.events[i + 1].noteNumber>>)
    ELSE g

\* Mutation: the walk starts from the node the previous call ended on.
AddSequenceKeepsPrev(sequence) ==
    /\ pc = "idle"
    /\ LET g == AddEventIndex([map |-> map, insertSequence |-> insertSequence],
                              FilterNoteOn(sequence), 0,
                              IF insertSequence = <<>> THEN <<>>
                              ELSE <<insertSequence[Len(insertSequence)]>>)
       IN  /\ map' = g.map
           /\ insertSequence' = g.insertSequence
    /\ ingested' = Append(ingested, sequence)
    /\ UNCHANGED travVars

AddSequence(sequence) ==
    /\ pc = "idle"
    /\ LET g == AddEventIndex([map |-> map, insertSequence |-> insertSequence],
                              FilterNoteOn(sequence), 0, <<>>)
       IN  /\ map' = g.map
           /\ insertSequence' = g.insertSequence
    /\ ingested' = Append(ingested, sequence)
    /\ UNCHANGED travVars

\* ----------------------------------------------------------------- queries
getAllNotes ==
    LET keys == Keys(map)
    IN  SortBy([i \in 1..Len(keys) |->
                  [count |-> map[keys[i]].count, note |-> map[keys[i]].note]])

getInsertSequence == insertSequence

\* Mutation: the exclude list is not consulted.
BuildIgnoresExclude(m, note, path, excl) ==
    IF note \notin DOMAIN m THEN <<>>
    ELSE LET pathData == IF path = "pathsIn" THEN m[note].pathsIn
                         ELSE m[note].pathsOut
             kept == Keys(pathData)
         IN  SortBy([i \in 1..Len(kept) |->
                       [count |-> pathData[kept[i]].count,
                        note  |-> pathData[kept[i]].node]])

\* Mutation: every node of the graph that is not excluded is offered, linked
\* to the note or not.
BuildOffersEveryNode(m, note, path, excl) ==
    IF note \notin DOMAIN m THEN <<>>
    ELSE LET kept == SelectSeq(Keys(m), LAMBDA k : IndexOf(excl, k) < 0)
         IN  SortBy([i \in 1..Len(kept) |->
                       [count |-> m[kept[i]].count, note |-> kept[i]]])

\* _build of getNotePaths: _.get(this._map, `${note}.${path}`), then reduce
\* over the references in key order, then sortBy.
Build(m, note, path, excl) ==
    IF note \notin DOMAIN m THEN <<>>
    ELSE LET pathData == IF path = "pathsIn" THEN m[note].pathsIn
                         ELSE m[note].pathsOut
             kept == SelectSeq(Keys(pathData),
                         LAMBDA k : IndexOf(excl, pathData[k].node) < 0)
         IN  SortBy([i \in 1..Len(kept) |->
                       [count |-> pathData[kept[i]].count,
                        note  |-> pathData[kept[i]].node]])

getNotePaths(note, excl) ==
    [pathsIn  |-> Build(map, note, "pathsIn", excl),
     pathsOut |-> Build(map, note, "pathsOut", excl)]

\* Mutation: the duration is cut by the matched event's absolute offset.
PartialSequenceFromZero(element) ==
    LET sequence == element.sequence
    IN  [duration |-> sequence.duration
                        - sequence.events[element.eventIndex + 1].offset,
         events   |-> Slice(sequence.events, element.eventIndex)]

\* Mutation: the slice starts behind the matched event.
PartialSequenceAfterMatch(element) ==
    LET sequence == element.sequence
    IN  [duration |-> sequence.duration
                        - (sequence.events[element.eventIndex + 1].offset
                             - sequence.events[1].offset),
         events   |-> Slice(sequence.events, element.eventIndex + 1)]

PartialSequence(element) ==
    LET sequence == element.sequence
    IN  [duration |-> sequence.duration
                        - (sequence.events[element.eventIndex + 1].offset
                             - sequence.events[1].offset),
         events   |-> Slice(sequence.events, element.eventIndex)]

\* Mutation: the partial flag is not consulted.
getSequencesForNoteAlwaysPartial(note, partial) ==
    IF note \notin DOMAIN map THEN <<>>
    ELSE [i \in 1..Len(map[note].sequences) |->
            PartialSequence(map[note].sequences[i])]

getSequencesForNote(note, partial) ==
    IF note \notin DOMAIN map THEN <<>>
    ELSE [i \in 1..Len(map[note].sequences) |->
            IF partial = FALSE THEN map[note].sequences[i].sequence
            ELSE PartialSequence(map[note].sequences[i])]

\* ---------------------------------------------------------------- traverse
\* What the caller's next may return: undefined or a ranked note element, of
\* which traverse reads the note only.
NextReturns == {<<>>} \cup {<<n>> : n \in TraverseNotes}

NextCall(note, excl, returned) ==
    [note     |-> note,
     excluded |-> excl,
     pathsIn  |-> getNotePaths(note, excl).pathsIn,
     pathsOut |-> getNotePaths(note, excl).pathsOut,
     returned |-> returned]

\* Mutation: _push is handed an element for startNote whether or not the
\* note has a node.
TraverseAssumesNode(start, max, attrs) ==
    /\ pc = "idle"
    /\ pc' = "push"
    /\ attributes' = attrs
    /\ maxCount' = max
    /\ startNote' = start
    /\ exclude' = <<>>
    /\ noteElement' = <<start>>
    /\ index' = 0
    /\ result' = <<>>
    /\ nextLog' = <<>>
    /\ UNCHANGED <<map, insertSequence, ingested>>

\* traverse up to its call _push(this._map[startNote], 0)
Traverse(start, max, attrs) ==
    /\ pc = "idle"
    /\ pc' = "push"
    /\ attributes' = attrs
    /\ maxCount' = max
    /\ startNote' = start
    /\ exclude' = <<>>
    /\ noteElement' = IF start \in DOMAIN map THEN <<map[start].note>> ELSE <<>>
    /\ index' = 0
    /\ result' = <<>>
    /\ nextLog' = <<>>
    /\ UNCHANGED <<map, insertSequence, ingested>>

\* _push(noteElement, index) returning []: the recursion ends.
PushEnd ==
    /\ pc = "push"
    /\ index = maxCount \/ noteElement = <<>>
    /\ pc' = "done"
    /\ UNCHANGED <<map, insertSequence, ingested, attributes, maxCount,
                   startNote, exclude, noteElement, index, result, nextLog>>

\* Mutation: the result records the candidate instead of the current note.
PushNoteRecordsCandidate(r1, r2) ==
    /\ pc = "push"
    /\ ~(index = maxCount \/ noteElement = <<>>)
    /\ index < MaxSteps
    /\ LET note  == noteElement[1]
           excl1 == IF DisallowReuse \in attributes
                    THEN Append(exclude, note) ELSE exclude
           retry == r1 = <<>> /\ ResetAfterExhaust \in attributes
       IN  /\ exclude' = IF retry THEN <<>> ELSE excl1
           /\ noteElement' = IF retry THEN r2 ELSE r1
           /\ nextLog' = IF retry
                         THEN nextLog \o <<NextCall(note, excl1, r1),
                                           NextCall(note, <<>>, r2)>>
                         ELSE Append(nextLog, NextCall(note, excl1, r1))
           /\ result' = result \o (IF retry THEN r2 ELSE r1)
    /\ index' = index + 1
    /\ UNCHANGED <<map, insertSequence, ingested, pc, attributes, maxCount,
                   startNote>>

\* Mutation: the note joins exclude only after the paths were computed.
PushStepExcludesLate(r1, r2) ==
    /\ pc = "push"
    /\ ~(index = maxCount \/ noteElement = <<>>)
    /\ LET note  == noteElement[1]
           excl1 == IF DisallowReuse \in attributes
                    THEN Append(exclude, note) ELSE exclude
           retry == r1 = <<>> /\ ResetAfterExhaust \in attributes
       IN  /\ exclude' = IF retry THEN <<>> ELSE excl1
           /\ noteElement' = IF retry THEN r2 ELSE r1
           /\ nextLog' = IF retry
                         THEN nextLog \o <<NextCall(note, exclude, r1),
                                           NextCall(note, <<>>, r2)>>
                         ELSE Append(nextLog, NextCall(note, exclude, r1))
           /\ result' = Append(result, note)
    /\ index' = index + 1
    /\ UNCHANGED <<map, insertSequence, ingested, pc, attributes, maxCount,
                   startNote>>

\* Mutation: next is never invoked a second time.
PushStepNeverRetries(r1, r2) ==
    /\ pc = "push"
    /\ ~(index = maxCount \/ noteElement = <<>>)
    /\ LET note  == noteElement[1]
           excl1 == IF DisallowReuse \in attributes
                    THEN Append(exclude, note) ELSE exclude
           retry == FALSE
       IN  /\ exclude' = IF retry THEN <<>> ELSE excl1
           /\ noteElement' = IF retry THEN r2 ELSE r1
           /\ nextLog' = IF retry
                         THEN nextLog \o <<NextCall(note, excl1, r1),
                                           NextCall(note, <<>>, r2)>>
                         ELSE Append(nextLog, NextCall(note, excl1, r1))
           /\ result' = Append(result, note)
    /\ index' = index + 1
    /\ UNCHANGED <<map, insertSequence, ingested, pc, attributes, maxCount,
                   startNote>>

\* Mutation: a note for which next returns no candidate is not appended.
PushStepDropsLast(r1, r2) ==
    /\ pc = "push"
    /\ ~(index = maxCount \/ noteElement = <<>>)
    /\ LET note  == noteElement[1]
           excl1 == IF DisallowReuse \in attributes
                    THEN Append(exclude, note) ELSE exclude
           retry == r1 = <<>> /\ ResetAfterExhaust \in attributes
       IN  /\ exclude' = IF retry THEN <<>> ELSE excl1
           /\ noteElement' = IF retry THEN r2 ELSE r1
           /\ nextLog' = IF retry
                         THEN nextLog \o <<NextCall(note, excl1, r1),
                                           NextCall(note, <<>>, r2)>>
                         ELSE Append(nextLog, NextCall(note, excl1, r1))
           /\ result' = IF (IF retry THEN r2 ELSE r1) = <<>>
                        THEN result ELSE Append(result, note)
    /\ index' = index + 1
    /\ UNCHANGED <<map, insertSequence, ingested, pc, attributes, maxCount,
                   startNote>>

\* Mutation: next is invoked a second time whenever it returned no candidate.
PushStepRetriesAlways(r1, r2) ==
    /\ pc = "push"
    /\ ~(index = maxCount \/ noteElement = <<>>)
    /\ LET note  == noteElement[1]
           excl1 == IF DisallowReuse \in attributes
                    THEN Append(exclude, note) ELSE exclude
           retry == r1 = <<>>
       IN  /\ exclude' = IF retry THEN <<>> ELSE excl1
           /\ noteElement' = IF retry THEN r2 ELSE r1
           /\ nextLog' = IF retry
                         THEN nextLog \o <<NextCall(note, excl1, r1),
                                           NextCall(note, <<>>, r2)>>
                         ELSE Append(nextLog, NextCall(note, excl1, r1))
           /\ result' = Append(result, note)
    /\ index' = index + 1
    /\ UNCHANGED <<map, insertSequence, ingested, pc, attributes, maxCount,
                   startNote>>

\* _push(noteElement, index) up to its recursive call: r1 and r2 are what the
\* first and, if it is made, the second invocation of next return.
PushStep(r1, r2) ==
    /\ pc = "push"
    /\ ~(index = maxCount \/ noteElement = <<>>)
    /\ LET note  == noteElement[1]
           excl1 == IF DisallowReuse \in attributes
                    THEN Append(exclude, note) ELSE exclude
           retry == r1 = <<>> /\ ResetAfterExhaust \in attributes
       IN  /\ exclude' = IF retry THEN <<>> ELSE excl1
           /\ noteElement' = IF retry THEN r2 ELSE r1
           /\ nextLog' = IF retry
                         THEN nextLog \o <<NextCall(note, excl1, r1),
                                           NextCall(note, <<>>, r2)>>
                         ELSE Append(nextLog, NextCall(note, excl1, r1))
           /\ result' = Append(result, note)
    /\ index' = index + 1
    /\ UNCHANGED <<map, insertSequence, ingested, pc, attributes, maxCount,
                   startNote>>

\* PushStep for an arbitrary policy, the depth of the recursion that is
\* explored capped at MaxSteps.
PushNote(r1, r2) ==
    /\ index < MaxSteps
    /\ PushStep(r1, r2)

\* traverse returns to its caller; its locals are gone.
TraverseReturn ==
    /\ pc = "done"
    /\ pc' = "idle"
    /\ attributes' = {}
    /\ maxCount' = 0
    /\ startNote' = 0
    /\ exclude' = <<>>
    /\ noteElement' = <<>>
    /\ index' = 0
    /\ result' = <<>>
    /\ nextLog' = <<>>
    /\ UNCHANGED <<map, insertSequence, ingested>>

\* ---------------------------------------------------------- specifications
Init ==
    /\ map = <<>>
    /\ insertSequence = <<>>
    /\ ingested = <<>>
    /\ pc = "idle"
    /\ attributes = {}
    /\ maxCount = 0
    /\ startNote = 0
    /\ exclude = <<>>
    /\ noteElement = <<>>
    /\ index = 0
    /\ result = <<>>
    /\ nextLog = <<>>

\* The number of events handed to addSequence so far.
RECURSIVE EventsIn(_)
EventsIn(calls) ==
    IF calls = <<>> THEN 0 ELSE Len(calls[1].events) + EventsIn(Tail(calls))

\* Ingestion of arbitrary sequences, at most MaxCalls of them holding at most
\* MaxEvents events together; the queries are evaluated in every state.
Next ==
    /\ Len(ingested) < MaxCalls
    /\ \E sequence \in SequencesOver(EventKinds, MaxEvents - EventsIn(ingested)) :
          AddSequence(sequence)

Spec == Init /\ [][Next]_vars

\* addSequence called once more with the sequence of the call before.
AddSequenceAgain ==
    /\ Len(ingested) \in 1..MaxCalls
    /\ AddSequence(ingested[Len(ingested)])

\* Ingestion as in Next, any call followed at will by its repetition.
NextRepeat ==
    \/ Next
    \/ AddSequenceAgain

SpecRepeat == Init /\ [][NextRepeat]_vars

\* Traversals of the graphs built from note-on sequences.
AddNoteOnSequence ==
    /\ Len(ingested) < MaxTraverseCalls
    /\ \E sequence \in SequencesOver(NoteOnKinds,
                                      MaxTraverseEvents - EventsIn(ingested)) :
          AddSequence(sequence)

NextTraverse ==
    \/ AddNoteOnSequence
    \/ \E start \in Notes, max \in MaxCounts, attrs \in AttributeSets :
          Traverse(start, max, attrs)
    \/ PushEnd
    \/ \E r1 \in NextReturns, r2 \in NextReturns : PushNote(r1, r2)
    \/ TraverseReturn

SpecTraverse == Init /\ [][NextTraverse]_vars

\* _push deeper than MaxSteps, for a next that returns candidate r at last.
\* No maxCount of MaxCounts is an index that deep, so that only the element
\* decides whether the recursion goes on; the index, the exclusion list and
\* the notes collected grow without bound there and are not followed.
PushBeyond(r) ==
    /\ pc = "push"
    /\ ~(index = maxCount \/ noteElement = <<>>)
    /\ index = MaxSteps
    /\ noteElement' = r
    /\ UNCHANGED <<map, insertSequence, ingested, pc, attributes, maxCount,
                   startNote, exclude, index, result, nextLog>>

NextTraverseFair ==
    \/ NextTraverse
    \/ \E r \in NextReturns : PushBeyond(r)

\* traverse is synchronous: once called, each step of its recursion is taken
\* and it returns; when it is called is up to the caller.
SpecTraverseFair ==
    /\ Init
    /\ [][NextTraverseFair]_vars
    /\ WF_vars(PushEnd)
    /\ WF_vars(\E r1 \in NextReturns, r2 \in NextReturns : PushNote(r1, r2))
    /\ WF_vars(\E r \in NextReturns : PushBeyond(r))
    /\ WF_vars(TraverseReturn)

\* A next that returns the top-ranked offered neighbour, none when nothing is
\* offered: the head of either ranked list it was given.
TopRanked(paths) ==
    IF paths.pathsOut = <<>> /\ paths.pathsIn = <<>>
    THEN {<<>>}
    ELSE {<<ranked[1].note>> :
             ranked \in {paths.pathsOut, paths.pathsIn} \ {<<>>}}

\* One _push under the top-ranked policy.
PushTopRanked ==
    /\ pc = "push"
    /\ noteElement # <<>>
    /\ LET note  == noteElement[1]
           excl1 == IF DisallowReuse \in attributes
                    THEN Append(exclude, note) ELSE exclude
       IN  \E r1 \in TopRanked(getNotePaths(note, excl1)),
              r2 \in TopRanked(getNotePaths(note, <<>>)) :
                  PushStep(r1, r2)

\* Graphs of note-on sequences, traversed under the top-ranked policy with
\* every maxCount up to MaxTopRankedCount.
NextTopRanked ==
    \/ AddNoteOnSequence
    \/ \E start \in Notes, max \in 0..MaxTopRankedCount, attrs \in AttributeSets :
          Traverse(start, max, attrs)
    \/ PushEnd
    \/ PushTopRanked
    \/ TraverseReturn

SpecTopRanked == Init /\ [][NextTopRanked]_vars

\* ------------------------------------------------- what the calls ingested
\* The note-on events of a sequence handed to addSequence, in order.
OnsetsOf(sequence) ==
    SelectSeq(sequence.events, LAMBDA e : e.subtype = NoteOn)

OnsetNotes(sequence) ==
    LET onsets == OnsetsOf(sequence)
    IN  [i \in 1..Len(onsets) |-> onsets[i].noteNumber]

\* The number of adjacent pairs (a, b) among the note-ons of one sequence.
PairsIn(sequence, a, b) ==
    LET notes == OnsetNotes(sequence)
    IN  Cardinality({i \in 1..(Len(notes) - 1) :
                       notes[i] = a /\ notes[i + 1] = b})

PairTotal(a, b) ==
    SumSeq([c \in 1..Len(ingested) |-> PairsIn(ingested[c], a, b)])

\* The note values of the note-ons of the calls from call c on, in call order.
RECURSIVE OnsetLog(_)
OnsetLog(c) ==
    IF c > Len(ingested) THEN <<>>
    ELSE OnsetNotes(ingested[c]) \o OnsetLog(c + 1)

OccurrenceCount(n) ==
    LET log == OnsetLog(1)
    IN  Cardinality({i \in 1..Len(log) : log[i] = n})

HasEdgeOut(x, y) == x \in DOMAIN map /\ y \in DOMAIN map[x].pathsOut

HasEdgeIn(y, x) == y \in DOMAIN map /\ x \in DOMAIN map[y].pathsIn

EdgeOutCount(x, y) == IF HasEdgeOut(x, y) THEN map[x].pathsOut[y].count ELSE 0

EdgeInCount(y, x) == IF HasEdgeIn(y, x) THEN map[y].pathsIn[x].count ELSE 0

NonIncreasing(ranked) ==
    \A i \in 1..(Len(ranked) - 1) : ranked[i].count >= ranked[i + 1].count

\* ------------------------------------------------------------------ claims
\* C1: after any sequence of addSequence calls, for every pair of notes
\* (x, y), x = y included, the edge x.pathsOut[y] exists iff y.pathsIn[x]
\* exists, and when they exist their counts are equal (and each edge record
\* refers to the neighbour it is keyed by).
C1_EdgesSymmetric ==
    \A x \in Notes, y \in Notes :
        /\ HasEdgeOut(x, y) <=> HasEdgeIn(y, x)
        /\ HasEdgeOut(x, y) =>
              /\ map[x].pathsOut[y].count = map[y].pathsIn[x].count
              /\ map[x].pathsOut[y].node = y
              /\ map[y].pathsIn[x].node = x

C1_Witness ==
    \E x \in Notes, y \in Notes :
        /\ x # y
        /\ HasEdgeOut(x, x) /\ EdgeOutCount(x, x) = 1
        /\ HasEdgeOut(x, y) /\ EdgeOutCount(x, y) = 2
        /\ ~HasEdgeOut(y, x)

\* C2: the count of the edge a->b, in a.pathsOut[b] and in b.pathsIn[a], is
\* the number of adjacent pairs (a, b) of note-on events inside the ingested
\* sequences, each taken in filtered order; an edge exists only for such a
\* pair, so none is recorded from the last note of one call to the first note
\* of the next call.
C2_EdgeCountsArePairCounts ==
    \A a \in Notes, b \in Notes :
        LET pairs == PairTotal(a, b)
        IN  /\ EdgeOutCount(a, b) = pairs
            /\ EdgeInCount(b, a) = pairs
            /\ HasEdgeOut(a, b) <=> pairs > 0

\* Two calls, the first ending in a and the second starting with b, a->b
\* occurring nowhere else; and a pair that is adjacent only after filtering.
C2_Witness ==
    /\ Len(ingested) >= 2
    /\ OnsetNotes(ingested[1]) # <<>>
    /\ OnsetNotes(ingested[2]) # <<>>
    /\ ~HasEdgeOut(OnsetNotes(ingested[1])[Len(OnsetNotes(ingested[1]))],
                   OnsetNotes(ingested[2])[1])
    /\ \E i \in 1..(Len(ingested[1].events) - 2) :
          /\ ingested[1].events[i].subtype = NoteOn
          /\ ingested[1].events[i + 1].subtype = NoteOff
          /\ ingested[1].events[i + 2].subtype = NoteOn
          /\ HasEdgeOut(ingested[1].events[i].noteNumber,
                        ingested[1].events[i + 2].noteNumber)

\* C3: the sum of the counts returned by getAllNotes is the number of note-on
\* events ingested over all calls and the length of getInsertSequence(), which
\* is the concatenation, in call order, of the note values of the note-on
\* events of every ingested sequence (other events contribute nothing).
C3_CountsSumToOnsets ==
    LET ranked == getAllNotes
    IN  /\ getInsertSequence = OnsetLog(1)
        /\ SumSeq([i \in 1..Len(ranked) |-> ranked[i].count]) = Len(OnsetLog(1))
        /\ Len(getInsertSequence) = Len(OnsetLog(1))

C3_Witness ==
    /\ Len(ingested) >= 2
    /\ \A c \in 1..Len(ingested) :
          /\ Len(OnsetsOf(ingested[c])) >= 1
          /\ Len(OnsetsOf(ingested[c])) < Len(ingested[c].events)
    /\ Len(getInsertSequence) >= 3

\* C4: every node has count = length of its sequences list, and each entry
\* (sequence, eventIndex) of the list designates an event of the referenced
\* sequence whose note value is the node's note.
C4_SequenceIndexSound ==
    \A n \in DOMAIN map :
        /\ map[n].note = n
        /\ map[n].count = Len(map[n].sequences)
        /\ \A k \in 1..Len(map[n].sequences) :
              LET element == map[n].sequences[k]
              IN  /\ element.eventIndex >= 0
                  /\ element.eventIndex < Len(element.sequence.events)
                  /\ element.sequence.events[element.eventIndex + 1].noteNumber
                        = n

\* A node with occurrences from two calls, one of them behind an event that
\* the filter dropped.
C4_Witness ==
    \E n \in DOMAIN map :
        /\ map[n].count >= 3
        /\ \E k \in 1..Len(map[n].sequences), l \in 1..Len(map[n].sequences) :
              /\ map[n].sequences[k].sequence # map[n].sequences[l].sequence
              /\ map[n].sequences[l].eventIndex >= 1
        /\ \E c \in 1..Len(ingested) :
              /\ ingested[c].events # <<>>
              /\ ingested[c].events[1].subtype = NoteOff
              /\ n \in Range(OnsetNotes(ingested[c]))

\* C5: getAllNotes returns exactly one {note, count} entry for every note ever
\* ingested and none for any other note, with count the note's total number
\* of occurrences, ordered by count non-increasing.
C5_AllNotesRanked ==
    LET ranked == getAllNotes
    IN  /\ {ranked[i].note : i \in 1..Len(ranked)} = Range(OnsetLog(1))
        /\ Len(ranked) = Cardinality(Range(OnsetLog(1)))
        /\ \A i \in 1..Len(ranked) :
              ranked[i].count = OccurrenceCount(ranked[i].note)
        /\ NonIncreasing(ranked)

\* Three notes, the most used one having the largest key, so that the key
\* order of _map is not the ranked order.
C5_Witness ==
    LET ranked == getAllNotes
    IN  /\ Len(ranked) = 3
        /\ ranked[1].count > ranked[2].count
        /\ ranked[1].note > ranked[2].note
        /\ ranked[1].note > ranked[3].note

\* The position of a note's first insertion into the graph.
FirstInserted(n) == IndexOf(insertSequence, n)

\* C6 as claimed: among the entries of getAllNotes with equal count, notes
\* appear in the order in which they were first inserted into the graph.
C6_TiesInFirstInsertionOrder ==
    LET ranked == getAllNotes
    IN  \A i \in 1..Len(ranked), j \in 1..Len(ranked) :
            (i < j /\ ranked[i].count = ranked[j].count)
                => FirstInserted(ranked[i].note) < FirstInserted(ranked[j].note)

\* C6 as amended: among the entries of getAllNotes with equal count, notes
\* (non-negative integers, as MIDI note numbers are) appear in ascending order
\* of note number (the key order of _map, which the stable sort keeps),
\* whatever the order of their insertion.
C6_TiesInAscendingNoteOrder ==
    LET ranked == getAllNotes
    IN  \A i \in 1..Len(ranked), j \in 1..Len(ranked) :
            (i < j /\ ranked[i].count = ranked[j].count)
                => ranked[i].note < ranked[j].note

\* Three notes of equal count, inserted in descending order.
C6_Witness ==
    LET ranked == getAllNotes
    IN  /\ Len(ranked) = 3
        /\ ranked[1].count = ranked[3].count
        /\ FirstInserted(ranked[1].note) > FirstInserted(ranked[2].note)
        /\ FirstInserted(ranked[2].note) > FirstInserted(ranked[3].note)

\* The exclude arrays tried: one for every set of notes.
RECURSIVE ListOf(_)
ListOf(S) ==
    IF S = {} THEN <<>>
    ELSE LET x == CHOOSE y \in S : \A z \in S : y >= z
         IN  <<x>> \o ListOf(S \ {x})

ExcludeLists == {ListOf(S) : S \in SUBSET Notes}

\* ranked lists exactly the entries of wanted, once each, by count
\* non-increasing.
RanksExactly(ranked, wanted) ==
    /\ Range(ranked) = wanted
    /\ Len(ranked) = Cardinality(wanted)
    /\ NonIncreasing(ranked)

\* The entries {note: m, count} of the transitions into note n (from n, if
\* out) that the calls ingested, listed by note.
Transitions(n, out) ==
    LET notes == ListOf(Notes)
    IN  SelectSeq([i \in 1..Len(notes) |->
                     [count |-> IF out THEN PairTotal(n, notes[i])
                                ELSE PairTotal(notes[i], n),
                      note  |-> notes[i]]],
                  LAMBDA e : e.count > 0)

\* C7: for a note present in the graph and any exclude list,
\* getNotePaths(note, exclude).pathsIn (resp. pathsOut) contains exactly one
\* {note: m, count} entry for each predecessor (resp. successor) m of the note
\* that is not in exclude, with count the number of transitions m->note (resp.
\* note->m), and each list is ordered by count non-increasing.
C7_NotePathsRanked ==
    \A n \in DOMAIN map :
        LET into  == Transitions(n, FALSE)
            outOf == Transitions(n, TRUE)
        IN  \A excl \in ExcludeLists :
                LET paths == getNotePaths(n, excl)
                    Left(list) ==
                        {e \in Range(list) : e.note \notin Range(excl)}
                IN  /\ RanksExactly(paths.pathsIn, Left(into))
                    /\ RanksExactly(paths.pathsOut, Left(outOf))

\* A note with two predecessors, the more frequent one having the larger key
\* and being excluded.
C7_Witness ==
    \E n \in DOMAIN map :
        LET full == getNotePaths(n, <<>>)
        IN  /\ Len(full.pathsIn) = 2
            /\ full.pathsIn[1].count > full.pathsIn[2].count
            /\ full.pathsIn[1].note > full.pathsIn[2].note
            /\ Len(full.pathsOut) >= 1
            /\ getNotePaths(n, <<full.pathsIn[1].note>>).pathsIn
                  = <<full.pathsIn[2]>>

\* The occurrences of note n in the calls from call c on, in order: the call
\* and the 0-based position among that call's note-on events.
RECURSIVE OccurrencesFrom(_, _)
OccurrencesFrom(c, n) ==
    IF c > Len(ingested) THEN <<>>
    ELSE LET notes == OnsetNotes(ingested[c])
             at == SelectSeq([i \in 1..Len(notes) |-> i],
                             LAMBDA i : notes[i] = n)
         IN  [k \in 1..Len(at) |-> [call |-> c, at |-> at[k] - 1]]
                 \o OccurrencesFrom(c + 1, n)

Occurrences(n) == OccurrencesFrom(1, n)

\* The 0-based index, among all events of a source sequence, of its note-on
\* event number at (0-based).
SourceIndex(sequence, at) ==
    (CHOOSE j \in 1..Len(sequence.events) :
        /\ sequence.events[j].subtype = NoteOn
        /\ Cardinality({i \in 1..j : sequence.events[i].subtype = NoteOn})
              = at + 1) - 1

\* C9 as claimed: getSequencesForNote({note, partial: false}) returns one
\* entry per recorded occurrence of the note, as many as the node's count and
\* in occurrence order, each entry being the full source sequence that was
\* passed to addSequence, unchanged.
C9_FullSourceSequences ==
    \A n \in DOMAIN map :
        LET got == getSequencesForNote(n, FALSE)
            occ == Occurrences(n)
        IN  /\ Len(got) = map[n].count
            /\ Len(got) = Len(occ)
            /\ \A k \in 1..Len(got) : got[k] = ingested[occ[k].call]

\* C9 as amended: getSequencesForNote({note, partial: false}) returns one
\* entry per recorded occurrence of the note, as many as the node's count and
\* in occurrence order, each entry being the source sequence of the
\* occurrence reduced to its note-on events: the same duration, and of the
\* events that were passed to addSequence only the note-on events, in order.
C9_NoteOnSourceSequences ==
    \A n \in DOMAIN map :
        LET got == getSequencesForNote(n, FALSE)
            occ == Occurrences(n)
        IN  /\ Len(got) = map[n].count
            /\ Len(got) = Len(occ)
            /\ \A k \in 1..Len(got) :
                  /\ got[k].duration = ingested[occ[k].call].duration
                  /\ got[k].events = OnsetsOf(ingested[occ[k].call])

\* A note that occurs twice in one call and once in another, one of the two
\* sequences holding an event that is no note-on.
C9_Witness ==
    \E n \in DOMAIN map :
        LET got == getSequencesForNote(n, FALSE)
            occ == Occurrences(n)
        IN  /\ Len(got) = 3
            /\ got[1] = got[2]
            /\ got[2] # got[3]
            /\ occ[1].call = occ[2].call
            /\ \E k \in 1..3 : got[k] # ingested[occ[k].call]

\* C10 as claimed: getSequencesForNote({note, partial: true}) returns, for
\* each recorded occurrence of the note, a sequence whose events are the
\* source sequence's events from the matched event onward and whose duration
\* is duration - (offset(matchedEvent) - offset(firstEvent)), firstEvent being
\* the first event of the source sequence.
C10_PartialOfSource ==
    \A n \in DOMAIN map :
        LET got == getSequencesForNote(n, TRUE)
            occ == Occurrences(n)
        IN  /\ Len(got) = Len(occ)
            /\ \A k \in 1..Len(got) :
                  LET source == ingested[occ[k].call]
                      j == SourceIndex(source, occ[k].at)
                  IN  /\ got[k].events = Slice(source.events, j)
                      /\ got[k].events[1].noteNumber = n
                      /\ got[k].duration =
                            source.duration - (source.events[j + 1].offset
                                                 - source.events[1].offset)

\* C10 as amended: getSequencesForNote({note, partial: true}) returns, for
\* each recorded occurrence of the note, a sequence whose events are the
\* note-on events of the source sequence from the matched event onward (its
\* first event is the matched occurrence; events of other subtypes are
\* absent) and whose duration is duration - (offset(matchedEvent) -
\* offset(firstNoteOn)), firstNoteOn being the first note-on event of the
\* source sequence.
C10_PartialOfNoteOns ==
    \A n \in DOMAIN map :
        LET got == getSequencesForNote(n, TRUE)
            occ == Occurrences(n)
        IN  /\ Len(got) = Len(occ)
            /\ \A k \in 1..Len(got) :
                  LET source == ingested[occ[k].call]
                      onsets == OnsetsOf(source)
                  IN  /\ got[k].events = Slice(onsets, occ[k].at)
                      /\ got[k].events[1].noteNumber = n
                      /\ got[k].events[1] = onsets[occ[k].at + 1]
                      /\ got[k].duration =
                            source.duration - (onsets[occ[k].at + 1].offset
                                                 - onsets[1].offset)

\* An occurrence that is not the first note-on of its source sequence, the
\* source starting with an event that is no note-on and holding another one
\* after the matched event.
C10_Witness ==
    \E n \in DOMAIN map :
        LET got == getSequencesForNote(n, TRUE)
            occ == Occurrences(n)
        IN  \E k \in 1..Len(got) :
                LET source == ingested[occ[k].call]
                    j == SourceIndex(source, occ[k].at)
                IN  /\ occ[k].at >= 1
                    /\ source.events[1].subtype = NoteOff
                    /\ \E i \in (j + 2)..Len(source.events) :
                          source.events[i].subtype = NoteOff
                    /\ Len(got[k].events) >= 2
                    /\ got[k].duration < source.duration

\* The queries for a note that has no node, and a traverse call whose
\* startNote has no node: empty answers, next never invoked.
UnknownNoteAnswers ==
    /\ \A n \in Notes \ DOMAIN map :
          /\ \A excl \in ExcludeLists :
                getNotePaths(n, excl) = [pathsIn |-> <<>>, pathsOut |-> <<>>]
          /\ getSequencesForNote(n, FALSE) = <<>>
          /\ getSequencesForNote(n, TRUE) = <<>>
    /\ (pc # "idle" /\ startNote \notin DOMAIN map) =>
          /\ result = <<>>
          /\ nextLog = <<>>
          /\ noteElement = <<>>

\* A step of a traverse call whose startNote has no node.
UnknownStartStep ==
    \/ pc' # "idle" /\ startNote' \notin DOMAIN map'
    \/ pc # "idle" /\ startNote \notin DOMAIN map

\* C8: for a note that has no node in the graph no query fails:
\* getNotePaths returns {pathsIn: [], pathsOut: []}, getSequencesForNote
\* returns an empty list, and traverse with that startNote returns an empty
\* list without ever invoking next; the graph state is unchanged.
C8_UnknownNoteIsEmpty ==
    /\ []UnknownNoteAnswers
    /\ [][UnknownStartStep => UNCHANGED <<map, insertSequence>>]_vars

\* traverse has returned for a startNote without a node, on a graph that has
\* nodes and with a maxCount that allows notes.
C8_Witness ==
    /\ pc = "done"
    /\ startNote \notin DOMAIN map
    /\ map # <<>>
    /\ maxCount >= 2
    /\ attributes = {DisallowReuse, ResetAfterExhaust}
    /\ result = <<>>
    /\ nextLog = <<>>

\* The occurrences k of note n that are the event at index 0 of the sequence
\* that was passed to addSequence.
AtIndexZero(n) ==
    LET occ == Occurrences(n)
    IN  {k \in 1..Len(occ) :
           /\ occ[k].at = 0
           /\ ingested[occ[k].call].events[1].subtype = NoteOn}

\* C11 as claimed: if the note occurs at index 0 of an ingested sequence, the
\* entry that getSequencesForNote({note, partial: true}) returns for that
\* occurrence has the same duration and the same event list as the original
\* sequence passed to addSequence.
C11_RoundTripOfSource ==
    \A n \in DOMAIN map :
        LET got == getSequencesForNote(n, TRUE)
            occ == Occurrences(n)
        IN  \A k \in AtIndexZero(n) :
                /\ got[k].duration = ingested[occ[k].call].duration
                /\ got[k].events = ingested[occ[k].call].events

\* C11 as amended: if the note occurs at index 0 of an ingested sequence, the
\* entry that getSequencesForNote({note, partial: true}) returns for that
\* occurrence has the same duration as the original sequence passed to
\* addSequence, and its event list is the original's note-on events in order
\* (the original's event list only when that holds no other events); it is
\* the entry that partial: false returns for the occurrence.
C11_RoundTripOfNoteOns ==
    \A n \in DOMAIN map :
        LET got == getSequencesForNote(n, TRUE)
            occ == Occurrences(n)
        IN  \A k \in AtIndexZero(n) :
                /\ got[k].duration = ingested[occ[k].call].duration
                /\ got[k].events = OnsetsOf(ingested[occ[k].call])
                /\ got[k] = getSequencesForNote(n, FALSE)[k]
                /\ (\A i \in 1..Len(ingested[occ[k].call].events) :
                       ingested[occ[k].call].events[i].subtype = NoteOn)
                      => got[k].events = ingested[occ[k].call].events

\* A note at index 0 of a sequence that goes on with an event that is no
\* note-on and with another note-on; and the note at index 0 of a sequence of
\* note-ons only.
C11_Witness ==
    \E n \in DOMAIN map :
        LET got == getSequencesForNote(n, TRUE)
            occ == Occurrences(n)
        IN  /\ \E k \in AtIndexZero(n) :
                  /\ Len(got[k].events) >= 2
                  /\ got[k].events # ingested[occ[k].call].events
            /\ \E k \in AtIndexZero(n) :
                  /\ Len(got[k].events) >= 2
                  /\ got[k].events = ingested[occ[k].call].events

\* C12: for every graph, every attribute combination, every selection policy
\* next and every value of maxCount passed by the caller, the list returned by
\* traverse has at most maxCount elements (an empty list taken to be within
\* every bound, a negative one too).
C12_AtMostMaxCount ==
    pc = "done" => (result = <<>> \/ Len(result) <= maxCount)

\* The invocations of next grouped by _push call: with ResetAfterExhaust an
\* invocation that returned no candidate is followed by the retry of its step.
RECURSIVE StepsOf(_)
StepsOf(log) ==
    IF log = <<>> THEN <<>>
    ELSE IF log[1].returned = <<>> /\ ResetAfterExhaust \in attributes
         THEN <<[note |-> log[1].note, calls |-> SubSeq(log, 1, 2),
                 candidate |-> log[2].returned]>>
                  \o StepsOf(SubSeq(log, 3, Len(log)))
         ELSE <<[note |-> log[1].note, calls |-> SubSeq(log, 1, 1),
                 candidate |-> log[1].returned]>>
                  \o StepsOf(Tail(log))

\* The result lists the notes visited: one per step, each after the first
\* being the candidate of the step before.
ResultIsVisited ==
    LET steps == StepsOf(nextLog)
    IN  /\ Len(result) = Len(steps)
        /\ \A i \in 1..Len(result) : result[i] = steps[i].note
        /\ \A i \in 2..Len(result) : <<result[i]>> = steps[i - 1].candidate

\* C13 as claimed: whenever startNote has a node in the graph, the list
\* returned by traverse begins with startNote, and every later element is the
\* note of the candidate that next returned for the element just before it.
C13_BeginsWithStartNote ==
    (pc = "done" /\ startNote \in DOMAIN map) =>
        /\ result # <<>>
        /\ result[1] = startNote
        /\ ResultIsVisited

\* C13 as amended: whenever startNote has a node in the graph and maxCount is
\* not 0, the list returned by traverse begins with startNote; with maxCount 0
\* it is empty; in both cases every later element is the note of the
\* candidate that next returned for the element just before it (at the retry,
\* if the step was retried).
C13_BeginsWithStartNoteUnlessZero ==
    (pc = "done" /\ startNote \in DOMAIN map) =>
        /\ maxCount # 0 => result # <<>> /\ result[1] = startNote
        /\ maxCount = 0 => result = <<>>
        /\ ResultIsVisited

\* A returned list of three notes, one of its steps retried.
C13_Witness ==
    /\ pc = "done"
    /\ startNote \in DOMAIN map
    /\ Len(result) = 3
    /\ result[2] # result[1]
    /\ Len(nextLog) > Len(result)

\* The notes of the ranked lists handed to next at an invocation.
Offered(call) ==
    {call.pathsIn[i].note : i \in 1..Len(call.pathsIn)}
        \cup {call.pathsOut[i].note : i \in 1..Len(call.pathsOut)}

\* next only ever returned nothing or an element of the lists it was given.
PolicyChoosesOffered ==
    \A k \in 1..Len(nextLog) :
        nextLog[k].returned = <<>> \/ nextLog[k].returned[1] \in Offered(nextLog[k])

\* C14: with DisallowReuse set and ResetAfterExhaust not set, the pathsIn and
\* pathsOut lists handed to next never contain the current note or any note
\* visited earlier in this traversal; hence, if next only ever returns an
\* element of the lists it was given, no note appears twice in the result of
\* traverse.
C14_NoReuse ==
    (pc # "idle" /\ attributes = {DisallowReuse}) =>
        /\ Len(nextLog) = Len(result)
        /\ \A k \in 1..Len(nextLog) :
              /\ nextLog[k].note = result[k]
              /\ Offered(nextLog[k]) \cap Range(SubSeq(result, 1, k)) = {}
        /\ PolicyChoosesOffered =>
              \A i \in 1..Len(result), j \in 1..Len(result) :
                  result[i] = result[j] => i = j

\* The policy chose offered notes twice; the neighbours of the second note
\* were all visited, so that nothing was offered there.
C14_Witness ==
    /\ pc = "done"
    /\ attributes = {DisallowReuse}
    /\ PolicyChoosesOffered
    /\ Len(result) = 2
    /\ Offered(nextLog[1]) # {}
    /\ Offered(nextLog[2]) = {}
    /\ getNotePaths(result[2], <<>>).pathsOut # <<>>
    /\ getNotePaths(result[1], <<>>).pathsOut
          # getNotePaths(result[1], <<result[1]>>).pathsOut

\* The sequence of note-ons 60, 62, 60 of the example.
ExampleSequence ==
    MakeSequence(<<[subtype |-> NoteOn, noteNumber |-> 60],
                   [subtype |-> NoteOn, noteNumber |-> 62],
                   [subtype |-> NoteOn, noteNumber |-> 60]>>)

\* A finished traversal of the example: start note 60, maxCount 5.
ExampleDone ==
    /\ pc = "done"
    /\ ingested = <<ExampleSequence>>
    /\ startNote = 60
    /\ maxCount = 5

\* C15: for the graph built from note-ons [60, 62, 60], with start note 60,
\* maxCount 5 and a next returning the top-ranked offered neighbour (none
\* when nothing is offered), traverse returns [60, 62] with DisallowReuse
\* alone and [60, 62, 60, 62, 60] with DisallowReuse and ResetAfterExhaust
\* together.
C15_Example ==
    ExampleDone =>
        /\ attributes = {DisallowReuse} => result = <<60, 62>>
        /\ attributes = {DisallowReuse, ResetAfterExhaust}
              => result = <<60, 62, 60, 62, 60>>

\* The example has run with both attributes: two steps were retried.
C15_Witness ==
    /\ ExampleDone
    /\ attributes = {DisallowReuse, ResetAfterExhaust}
    /\ Len(result) = 5
    /\ Len(nextLog) = 7

\* The graph after the first k calls of addSequence.
RECURSIVE GraphAfter(_)
GraphAfter(k) ==
    IF k = 0 THEN [map |-> <<>>, insertSequence |-> <<>>]
    ELSE AddEventIndex(GraphAfter(k - 1), FilterNoteOn(ingested[k]), 0, <<>>)

NodeCountIn(g, n) == IF n \in DOMAIN g.map THEN g.map[n].count ELSE 0

OutCountIn(g, x, y) ==
    IF x \in DOMAIN g.map /\ y \in DOMAIN g.map[x].pathsOut
    THEN g.map[x].pathsOut[y].count ELSE 0

InCountIn(g, y, x) ==
    IF y \in DOMAIN g.map /\ x \in DOMAIN g.map[y].pathsIn
    THEN g.map[y].pathsIn[x].count ELSE 0

\* The last two calls of addSequence had the same argument.
Repeated ==
    /\ Len(ingested) >= 2
    /\ ingested[Len(ingested)] = ingested[Len(ingested) - 1]

\* Between g1 and g2 the log grew by what it grew by between g0 and g1, and
\* no node and no edge was created.
SameLogNoCreation(g0, g1, g2) ==
    /\ g2.insertSequence
          = g1.insertSequence
              \o SubSeq(g1.insertSequence, Len(g0.insertSequence) + 1,
                        Len(g1.insertSequence))
    /\ DOMAIN g2.map = DOMAIN g1.map
    /\ \A n \in DOMAIN g1.map :
          /\ DOMAIN g2.map[n].pathsOut = DOMAIN g1.map[n].pathsOut
          /\ DOMAIN g2.map[n].pathsIn = DOMAIN g1.map[n].pathsIn

\* C17 as claimed: calling addSequence twice with the same sequence on a
\* graph doubles, relative to the state after the first call, every node
\* count and every edge count that the first call affected, appends the same
\* notes a second time to the insertion log, and creates no node or edge that
\* the first call did not create.
C17_RepeatDoubles ==
    Repeated =>
        LET g0 == GraphAfter(Len(ingested) - 2)
            g1 == GraphAfter(Len(ingested) - 1)
            g2 == [map |-> map, insertSequence |-> insertSequence]
        IN  /\ \A n \in Notes :
                  NodeCountIn(g1, n) # NodeCountIn(g0, n)
                      => NodeCountIn(g2, n) = 2 * NodeCountIn(g1, n)
            /\ \A x \in Notes, y \in Notes :
                  /\ OutCountIn(g1, x, y) # OutCountIn(g0, x, y)
                        => OutCountIn(g2, x, y) = 2 * OutCountIn(g1, x, y)
                  /\ InCountIn(g1, y, x) # InCountIn(g0, y, x)
                        => InCountIn(g2, y, x) = 2 * InCountIn(g1, y, x)
            /\ SameLogNoCreation(g0, g1, g2)

\* C17: calling addSequence twice with the same sequence adds to every node
\* count and every edge count, at the second call, what the first call added
\* to it, so that the counts of a graph that was empty before the first call
\* double; the second call appends the same notes a second time to the
\* insertion log and creates no node or edge.
C17_RepeatAddsAgain ==
    Repeated =>
        LET g0 == GraphAfter(Len(ingested) - 2)
            g1 == GraphAfter(Len(ingested) - 1)
            g2 == [map |-> map, insertSequence |-> insertSequence]
        IN  /\ \A n \in Notes :
                  /\ NodeCountIn(g2, n) - NodeCountIn(g1, n)
                        = NodeCountIn(g1, n) - NodeCountIn(g0, n)
                  /\ g0.map = <<>> => NodeCountIn(g2, n) = 2 * NodeCountIn(g1, n)
            /\ \A x \in Notes, y \in Notes :
                  /\ OutCountIn(g2, x, y) - OutCountIn(g1, x, y)
                        = OutCountIn(g1, x, y) - OutCountIn(g0, x, y)
                  /\ InCountIn(g2, y, x) - InCountIn(g1, y, x)
                        = InCountIn(g1, y, x) - InCountIn(g0, y, x)
                  /\ g0.map = <<>> =>
                        /\ OutCountIn(g2, x, y) = 2 * OutCountIn(g1, x, y)
                        /\ InCountIn(g2, y, x) = 2 * InCountIn(g1, y, x)
            /\ SameLogNoCreation(g0, g1, g2)

\* A sequence with an edge was ingested twice into a graph that already had
\* that edge.
C17_Witness ==
    /\ Len(ingested) = 3
    /\ Repeated
    /\ ingested[1] # ingested[2]
    /\ \E x \in Notes, y \in Notes :
          /\ OutCountIn(GraphAfter(1), x, y) >= 1
          /\ OutCountIn(GraphAfter(2), x, y) > OutCountIn(GraphAfter(1), x, y)
          /\ EdgeOutCount(x, y) > OutCountIn(GraphAfter(2), x, y)

\* A sequence with an edge was ingested twice into an empty graph.
C17_WitnessFresh ==
    /\ Len(ingested) = 2
    /\ Repeated
    /\ \E x \in Notes, y \in Notes : EdgeOutCount(x, y) = 2

\* C16: when next returns no candidate for the current note (after the single
\* retry if ResetAfterExhaust is set, or at once if it is not), the current
\* note is still appended to the result as its last element and the traversal
\* ends, possibly with fewer than maxCount notes; next is not invoked again
\* afterwards.
C16_EndsOnNoCandidate ==
    [][/\ (/\ pc = "push"
           /\ Len(nextLog') > Len(nextLog)
           /\ nextLog'[Len(nextLog')].returned = <<>>)
          => /\ result' = Append(result, noteElement[1])
             /\ noteElement' = <<>>
             /\ pc' = "push"
       /\ (pc = "push" /\ noteElement = <<>>)
          => /\ pc' = "done"
             /\ nextLog' = nextLog
             /\ result' = result
       /\ pc = "done" => nextLog' = <<>>]_vars

\* A traversal ended on a note for which next returned no candidate twice,
\* before maxCount notes were collected.
C16_Witness ==
    /\ pc = "done"
    /\ ResetAfterExhaust \in attributes
    /\ maxCount = 2
    /\ Len(result) = 1
    /\ Len(nextLog) = 2
    /\ nextLog[2].returned = <<>>
    /\ nextLog[2].pathsOut # <<>>

\* C18: at each traversal step next is invoked once with the paths filtered
\* by the current exclusion set; the exclusion set is cleared and next
\* invoked a second time for the same note only if the first invocation
\* returned no candidate and ResetAfterExhaust is set; next is never invoked
\* more than twice for one step, and the exclusion set is never cleared when
\* the first invocation returned a candidate or ResetAfterExhaust is not set.
C18_RetryOnlyAfterExhaust ==
    [][(pc = "push" /\ pc' = "push") =>
          LET note  == noteElement[1]
              added == Len(nextLog') - Len(nextLog)
              first == nextLog'[Len(nextLog) + 1]
              excl1 == IF DisallowReuse \in attributes
                       THEN Append(exclude, note) ELSE exclude
          IN  /\ added \in {1, 2}
              /\ first.note = note
              /\ first.excluded = excl1
              /\ first.pathsIn = getNotePaths(note, excl1).pathsIn
              /\ first.pathsOut = getNotePaths(note, excl1).pathsOut
              /\ added = 2 <=>
                    (first.returned = <<>> /\ ResetAfterExhaust \in attributes)
              /\ added = 2 =>
                    LET second == nextLog'[Len(nextLog) + 2]
                    IN  /\ second.note = note
                        /\ second.excluded = <<>>
                        /\ second.pathsOut = getNotePaths(note, <<>>).pathsOut
                        /\ second.pathsIn = getNotePaths(note, <<>>).pathsIn
                        /\ exclude' = <<>>
              /\ added = 1 => exclude' = excl1]_vars

\* The first step of a traversal was retried with the exclusion set cleared,
\* the second was not.
C18_Witness ==
    /\ pc \in {"push", "done"}
    /\ attributes = {DisallowReuse, ResetAfterExhaust}
    /\ Len(result) = 2
    /\ Len(nextLog) = 3
    /\ nextLog[1].returned = <<>>
    /\ nextLog[1].excluded # <<>>
    /\ nextLog[2].excluded = <<>>
    /\ nextLog[2].pathsOut # nextLog[1].pathsOut
    /\ nextLog[3].note = nextLog[2].returned[1]
    /\ exclude # <<>>

\* There is an edge x->y of count at least 1, recorded at both its ends.
Linked(x, y) == EdgeOutCount(x, y) >= 1 /\ EdgeInCount(y, x) >= 1

\* The list is a walk in the graph.
IsWalk(notes) ==
    /\ \A i \in 1..Len(notes) : notes[i] \in DOMAIN map
    /\ \A i \in 1..(Len(notes) - 1) :
          Linked(notes[i], notes[i + 1]) \/ Linked(notes[i + 1], notes[i])

\* C20: if next only ever returns an element of the pathsIn or pathsOut list
\* it was given, then the result of traverse is a walk in the graph: every
\* element is a note that has a node, and for every two consecutive elements
\* (x, y) of the result there is an edge x->y or y->x with count at least 1.
C20_ResultIsWalk ==
    (pc # "idle" /\ PolicyChoosesOffered) =>
        IsWalk(IF pc = "push" THEN result \o noteElement ELSE result)

\* A walk of three notes whose last step follows an edge against its
\* direction.
C20_Witness ==
    /\ pc = "done"
    /\ PolicyChoosesOffered
    /\ Len(result) = 3
    /\ ~Linked(result[2], result[3])
    /\ Linked(result[3], result[2])

\* C19: every call to traverse terminates: for any graph, any attributes,
\* any maxCount supplied by the caller and any selection policy next that
\* itself returns, the traversal reaches its end (maxCount reached or
\* exhaustion) after finitely many steps.
C19_Terminates ==
    (pc = "push") ~> (pc = "done")

\* The same for a maxCount that is not negative.
C19_TerminatesFromCount ==
    (pc = "push" /\ maxCount >= 0) ~> (pc = "done")

=============================================================================
